---------------------------- MODULE Spec2Model ----------------------------
(***************************************************************************)
(* Who's on First -> Wikidata bot.                                         *)
(*                                                                         *)
(* The bot reads gazetteer records that carry a foreign identifier, finds  *)
(* the Wikidata entity holding that identifier and adds the Who's on First *)
(* id (P6766) to it.  The module models                                    *)
(*   - the fetch wrappers, backoffFetch and retryFetch (SpecTransport);    *)
(*   - the store-backed driver (main), run after run, against a remote     *)
(*     system that keeps claims, a contribution history and a search index *)
(*     that may lag behind the claims (Spec);                              *)
(*   - the two direct programs, index.js and part_000 (SpecDirect);        *)
(*   - the type-validating program (SpecTyped);                            *)
(*   - the startup of the store-backed driver over more remote states      *)
(*     (SpecStartup).                                                      *)
(***************************************************************************)
EXTENDS Integers, Sequences, FiniteSets, TLC

VARIABLES
    \* ---- transport: one call of backoffFetch / retryFetch
    tfn,          \* which wrapper is running: "backoffFetch" | "retryFetch" |
                  \* "retryFetch0" (retryFetch of the direct variants) | "none"
    tpc,          \* "idle" | "request" | "waiting" | "returned" | "raised"
    iteration,    \* the wrapper's iteration parameter of the attempt in progress
    fails,        \* consecutive transient failures of this call (history)
    throttles,    \* throttle answers of this call (history)
    waitMs,       \* delay, in ms, of the timer armed by the last wait
    waitCause,    \* "none" | "backoff" | "throttle"
    lastResp,     \* kind of the last response handled by the wrapper
    \* ---- remote system (wikidata.org)
    wdClaims,     \* entity -> sequence of P6766 claim values
    contribLog,   \* the bot's contribution history, one title per edit
    indexed,      \* entities the search index knows to carry P6766
    p31,          \* entity -> sequence of P31 (instance of) claim values
    issued,       \* number of CSRF tokens the remote has handed out
    spent,        \* token carried by each wbcreateclaim request, in order (history)
    \* ---- local store (data/data.sqlite)
    mapTable,     \* rows of table map: <<wd, wof>>
    negative,     \* rows of table woeid (ids known to have no entity)
    pendingNeg,   \* INSERT OR IGNORE statements issued and not yet run
    negAtStart,   \* rows of table woeid when the current run started (history)
    \* ---- the process (main)
    run,          \* number of the run of the driver
    pc,           \* position of main
    list,         \* records scanned from the gazetteer databases
    cont,         \* usercontribs continuation cursor
    edited,       \* Set of titles edited previously
    missingEntity,\* edited entities without a map row, still to look up
    wofIds,       \* Who's on First ids already linked
    items,        \* candidates, in Map order
    i,            \* loop counter of the candidate loop
    entityId,     \* entity resolved for the current candidate
    events,       \* history of what the driver did (run, candidate, kind)
    \* ---- which program runs, the token it holds, the edit form it built
    variant,      \* "store" | "typed" | "index.js" | "part_000" | "none"
    token,        \* csrftoken held by main (0: none yet)
    form          \* editFormData of the last wbcreateclaim request built

tvars == <<tfn, tpc, iteration, fails, throttles, waitMs, waitCause, lastResp>>
rvars == <<wdClaims, contribLog, indexed, p31, issued, spent>>
svars == <<mapTable, negative, pendingNeg, negAtStart>>
pvars == <<run, pc, list, cont, edited, missingEntity, wofIds, items, i, entityId, events>>
kvars == <<variant, token, form>>
vars == <<tvars, rvars, svars, pvars, kvars>>

-----------------------------------------------------------------------------
(* Bounds of the model *)

\* attempts after which the stand-alone transport stops failing
MaxIteration == 24
\* throttle answers per call in the stand-alone transport
MaxThrottle == 2
\* retries (after a backoff or a throttle wait) per call inside the driver
MaxRetry == 1
\* runs of the driver (a restart starts the next run)
MaxRuns == 2
\* P6766 claims the remote accepts on one entity
MaxClaims == 2
\* titles per usercontribs page
PageSize == 1

(* Program and platform constants *)

\* largest delay setTimeout takes; a larger one is replaced by 1 ms
MaxTimerMs == 2147483647
\* fixed wait after actionthrottledtext
ThrottleSeconds == 60

-----------------------------------------------------------------------------
(* The edit form of wbcreateclaim *)

\* const wofProperty = 'P6766' (property in the direct variants)
wofProperty == "P6766"

\* `"${id}"`: the decimal text of the id between two double quotes.
Quote(id) == [quoted |-> TRUE, text |-> id]

\* The remote reads the value field as JSON; the property is string-typed,
\* so only a quoted text is a value it can store.
Decodable(value) == value.quoted

\* The string the remote stores for a quoted value; parseInt of it gives the
\* id back.
Decode(value) == value.text

\* No form built yet.
NoForm == [entity |-> "none", property |-> "none",
           value |-> [quoted |-> FALSE, text |-> 0], token |-> 0]

\* Mutant: the value field is the bare id, without the quotes.
EditFormBare(entity, id, tok) ==
    [entity |-> entity, property |-> wofProperty,
     value |-> [quoted |-> FALSE, text |-> id], token |-> tok]

\* editFormData: entity, property, value, token (action, format, snaktype
\* and bot are the same in every request).
EditForm(entity, id, tok) ==
    [entity |-> entity, property |-> wofProperty, value |-> Quote(id), token |-> tok]

-----------------------------------------------------------------------------
(* Transport *)

\* timeout(ms): setTimeout(resolve, ms).  Node replaces a delay above
\* 2^31-1 ms (or below 1) by 1 ms.  The argument is in seconds so that the
\* product stays inside TLC's integers; the result is the armed delay in ms.
timeout(seconds) ==
    IF seconds > MaxTimerMs \div 1000 \/ seconds < 1 THEN 1 ELSE seconds * 1000

\* Responses of one attempt.
\*   netfail  : fetch rejects (connection failure)
\*   s5xx/s4xx: response.ok is false
\*   badjson  : response.json() rejects
\*   throttle : body {error:{messages:[{name:'actionthrottledtext'}]}}
\*   noperm   : body {error:{messages:[{name:'no-permission'}]}}
\*   error    : any other body with an error member
\*   ok       : a body without error
RespKinds == {"netfail", "s5xx", "s4xx", "badjson", "throttle", "noperm", "error", "ok"}

\* Does the attempt end in the catch block (wait 2^iteration s, retry)?
\* backoffFetch: fetch rejected, !response.ok, or json() rejected.
\* retryFetch: fetch rejected or json() rejected; and with !response.ok the
\* log line reads the undeclared name repsonse, a ReferenceError thrown
\* inside the try block, so every non-ok status lands in the catch block
\* before the status >= 500 test is reached.
\* retryFetch of the direct variants has no try block: nothing is caught.
Caught(fn, kind) ==
    /\ fn \in {"backoffFetch", "retryFetch"}
    /\ kind \in {"netfail", "badjson", "s5xx", "s4xx"}

\* Does the attempt end in the throttle branch (retryFetch only)?
Throttled(fn, kind) == fn \in {"retryFetch", "retryFetch0"} /\ kind = "throttle"

\* Does the attempt reject the promise the caller awaits?  Only in the
\* direct variants: cookieFetch rejects, or response.json() rejects (always
\* for badjson; for a non-ok status when its body is not JSON).
Raises(fn, kind) ==
    /\ fn = "retryFetch0"
    /\ kind \in {"netfail", "badjson", "s5xx", "s4xx"}

\* The attempt returns the decoded body to the caller.  The direct variants
\* do not look at the status: a non-ok answer with a JSON body is returned.
Returns(fn, kind) ==
    /\ ~Caught(fn, kind)
    /\ ~Throttled(fn, kind)
    /\ fn = "retryFetch0" => kind \notin {"netfail", "badjson"}

\* A call starts: iteration defaults to 0.
CallStart(fn) ==
    /\ tfn' = fn
    /\ tpc' = "request"
    /\ iteration' = 0
    /\ fails' = 0
    /\ throttles' = 0
    /\ waitMs' = 0
    /\ waitCause' = "none"
    /\ lastResp' = "none"

\* A call is over: the body went to the caller.
CallEnd ==
    /\ tfn' = "none"
    /\ tpc' = "idle"
    /\ iteration' = 0
    /\ fails' = 0
    /\ throttles' = 0
    /\ waitMs' = 0
    /\ waitCause' = "none"
    /\ lastResp' = "none"

\* The outcomes an attempt is given.  The stand-alone transport draws from
\* all of them; within main a rejected fetch stands for the four outcomes
\* that end in the same catch block, which only logs e.message.
AttemptKinds ==
    IF pc = "transport" THEN RespKinds
    ELSE RespKinds \ {"s5xx", "s4xx", "badjson"}

\* catch (e): seconds = 2 ** iteration; await timeout(seconds * 1000)
Backoff(cap) ==
    /\ tpc = "request"
    /\ iteration < cap
    /\ \E kind \in AttemptKinds :
        /\ Caught(tfn, kind)
        /\ lastResp' = kind
    /\ tpc' = "waiting"
    /\ waitCause' = "backoff"
    /\ waitMs' = timeout(2 ^ iteration)
    /\ fails' = fails + 1
    /\ UNCHANGED <<tfn, iteration, throttles>>

\* actionthrottledtext: await timeout(1000 * 60)
Throttle(cap) ==
    /\ tpc = "request"
    /\ throttles < cap
    /\ Throttled(tfn, "throttle")
    /\ lastResp' = "throttle"
    /\ tpc' = "waiting"
    /\ waitCause' = "throttle"
    /\ waitMs' = timeout(ThrottleSeconds)
    /\ throttles' = throttles + 1
    /\ fails' = 0
    /\ UNCHANGED <<tfn, iteration>>

\* Mutant: the call after a throttle wait passes iteration + 1 as well.
RetryCountsThrottle ==
    /\ tpc = "waiting"
    /\ tpc' = "request"
    /\ iteration' = iteration + 1
    /\ lastResp' = "none"
    /\ UNCHANGED <<tfn, fails, throttles, waitMs, waitCause>>

\* The timer fires and the wrapper calls itself: with iteration + 1 after a
\* backoff, with the default iteration after a throttle.
Retry ==
    /\ tpc = "waiting"
    /\ tpc' = "request"
    /\ iteration' = IF waitCause = "backoff" THEN iteration + 1 ELSE 0
    /\ lastResp' = "none"
    /\ UNCHANGED <<tfn, fails, throttles, waitMs, waitCause>>

\* Stand-alone transport: the wrapper returns the body to its caller.
Return ==
    /\ tpc = "request"
    /\ \E kind \in RespKinds :
        /\ Returns(tfn, kind)
        /\ lastResp' = kind
    /\ tpc' = "returned"
    /\ UNCHANGED <<tfn, iteration, fails, throttles, waitMs, waitCause>>

\* Stand-alone transport: the rejection reaches the caller.
Raise ==
    /\ tpc = "request"
    /\ \E kind \in RespKinds :
        /\ Raises(tfn, kind)
        /\ lastResp' = kind
    /\ tpc' = "raised"
    /\ UNCHANGED <<tfn, iteration, fails, throttles, waitMs, waitCause>>

\* Stand-alone transport: one call of a wrapper, from its first attempt.
InitTransport ==
    /\ tfn \in {"backoffFetch", "retryFetch", "retryFetch0"}
    /\ tpc = "request"
    /\ iteration = 0
    /\ fails = 0
    /\ throttles = 0
    /\ waitMs = 0
    /\ waitCause = "none"
    /\ lastResp = "none"
    /\ wdClaims = <<>>
    /\ contribLog = <<>>
    /\ indexed = {}
    /\ p31 = <<>>
    /\ issued = 0
    /\ spent = <<>>
    /\ variant = "none"
    /\ token = 0
    /\ form = NoForm
    /\ mapTable = {}
    /\ negative = {}
    /\ pendingNeg = <<>>
    /\ negAtStart = {}
    /\ run = 0
    /\ pc = "transport"
    /\ list = <<>>
    /\ cont = 0
    /\ edited = {}
    /\ missingEntity = {}
    /\ wofIds = {}
    /\ items = <<>>
    /\ i = 0
    /\ entityId = "none"
    /\ events = {}

TransportBackoff == Backoff(MaxIteration) /\ UNCHANGED <<rvars, svars, pvars, kvars>>
TransportThrottle == Throttle(MaxThrottle) /\ UNCHANGED <<rvars, svars, pvars, kvars>>
TransportRetry == Retry /\ UNCHANGED <<rvars, svars, pvars, kvars>>
TransportReturn == Return /\ UNCHANGED <<rvars, svars, pvars, kvars>>
TransportRaise == Raise /\ UNCHANGED <<rvars, svars, pvars, kvars>>

NextTransport ==
    \/ TransportBackoff
    \/ TransportThrottle
    \/ TransportRetry
    \/ TransportReturn
    \/ TransportRaise

SpecTransport == InitTransport /\ [][NextTransport]_vars

-----------------------------------------------------------------------------
(* The world of the store-backed driver *)

Entities == {"Q1", "Q2"}
NoEntity == "none"

\* cursor values: null (no cursor yet) and false (no further page)
Null == 0
False == -1

Rec(id, other) == [id |-> id, other_id |-> other]

\* Rows returned by the gp:id query over all database files, in scan order.
Datasets ==
    { <<Rec(1, 10), Rec(2, 10)>>,
      <<Rec(1, 10), Rec(1, 20)>>,
      <<Rec(1, 20), Rec(2, 30)>>,
      <<Rec(1, 10), Rec(2, 20), Rec(1, 30)>> }

\* Entities that carry the statement P1281 = other on the remote system, in
\* the order the search ranks them.
Holders(other) ==
    CASE other = 10 -> <<"Q1">>
      [] other = 20 -> <<"Q2", "Q1">>
      [] OTHER -> <<>>

\* srsearch "haswbstatement:P1281=<other> -haswbstatement:P6766": the
\* entities the index lists for the query.  The index learns of a new P6766
\* claim only when it is refreshed.  With srlimit=1 the answer holds the
\* first of them.
SearchHits(other) == SelectSeq(Holders(other), LAMBDA e : e \notin indexed)

WithClaim == {e \in Entities : wdClaims[e] # <<>>}

Range(s) == {s[k] : k \in DOMAIN s}

Min(a, b) == IF a < b THEN a ELSE b

\* Mutant: a key that is already in the Map keeps its first value.
MapSetFirstWins(m, item) ==
    IF \E k \in DOMAIN m : m[k].id = item.id
    THEN m
    ELSE Append(m, item)

\* map.set(parseInt(item.id, 10), item): a known key keeps its place in the
\* Map and takes the new value, a new key goes to the end.
MapSet(m, item) ==
    IF \E k \in DOMAIN m : m[k].id = item.id
    THEN [k \in DOMAIN m |-> IF m[k].id = item.id THEN item ELSE m[k]]
    ELSE Append(m, item)

RECURSIVE Reduce(_, _)
\* list.reduce((map, item) => map.set(...), new Map())
Reduce(m, l) == IF l = <<>> THEN m ELSE Reduce(MapSet(m, Head(l)), Tail(l))

\* Mutant: the ids are looked up among the foreign ids of the entries.
DeleteLinkedByForeignId(m, ids) == SelectSeq(m, LAMBDA it : it.other_id \notin ids)

\* for (wofId of wofIds) items.delete(wofId)
DeleteLinked(m, ids) == SelectSeq(m, LAMBDA it : it.id \notin ids)

\* Mutant: the test reads the key of the entry instead of its other_id.
DeleteMissingByKey(m, others) == SelectSeq(m, LAMBDA it : it.id \notin others)

\* for ([key, {other_id}] of items) if (others.has(other_id)) items.delete(key)
DeleteMissing(m, others) == SelectSeq(m, LAMBDA it : it.other_id \notin others)

RECURSIVE InsertClaims(_, _, _)
\* for (claim of claims) { await db.run(INSERT INTO map VALUES (entity, wofId));
\* wofIds.add(wofId) }: a row that is already there breaks the primary key
\* and the INSERT rejects.  Result: the table, the ids added, and whether an
\* INSERT rejected.
InsertClaims(acc, entity, claims) ==
    IF claims = <<>> THEN acc
    ELSE IF <<entity, Head(claims)>> \in acc.table
         THEN [acc EXCEPT !.failed = TRUE]
         ELSE InsertClaims([table |-> acc.table \cup {<<entity, Head(claims)>>},
                            ids |-> acc.ids \cup {Head(claims)},
                            failed |-> FALSE],
                           entity, Tail(claims))

Ev(r, k, kind, ent, item) ==
    [run |-> r, i |-> k, kind |-> kind, ent |-> ent, id |-> item.id, other |-> item.other_id]

\* what the history keeps of the runs that are over
KeptKinds == {"search", "write", "wrote", "done", "killed"}

NoItem == Rec(0, 0)

RunningPcs == {"start", "contribs", "mapread", "backfill", "claims", "loop",
               "search", "token", "write"}
CallPcs == {"claims", "search", "instance", "token", "write"}
StoppedPcs == {"done", "killed", "crashed", "aborted"}

ResetMemory ==
    /\ cont' = Null
    /\ edited' = {}
    /\ missingEntity' = {}
    /\ wofIds' = {}
    /\ items' = <<>>
    /\ i' = 0
    /\ entityId' = NoEntity

Init ==
    /\ tfn = "none"
    /\ tpc = "idle"
    /\ iteration = 0
    /\ fails = 0
    /\ throttles = 0
    /\ waitMs = 0
    /\ waitCause = "none"
    /\ lastResp = "none"
    /\ \E q2 \in {<<>>, <<2>>} : wdClaims = [e \in Entities |-> IF e = "Q2" THEN q2 ELSE <<>>]
    /\ contribLog \in {<<>>, <<"Q2">>}
    /\ indexed = WithClaim
    /\ p31 = [e \in Entities |-> <<>>]
    /\ issued = 0
    /\ spent = <<>>
    /\ variant = "store"
    /\ token = 0
    /\ form = NoForm
    /\ mapTable = {}
    /\ negative = {}
    /\ pendingNeg = <<>>
    /\ negAtStart = {}
    /\ run = 1
    /\ pc = "start"
    /\ list \in Datasets
    /\ cont = Null
    /\ edited = {}
    /\ missingEntity = {}
    /\ wofIds = {}
    /\ items = <<>>
    /\ i = 0
    /\ entityId = NoEntity
    /\ events = {}

-----------------------------------------------------------------------------
(* The store-backed driver: main *)

\* action=login; a result other than Success throws 'Login Failure'.
Login ==
    /\ pc = "start"
    /\ \E result \in {"Success", "Failed"} :
        /\ pc' = IF result = "Success" THEN "contribs" ELSE "aborted"
        /\ events' = IF result = "Success" THEN events
                      ELSE events \cup {Ev(run, 0, "loginfail", NoEntity, NoItem)}
    /\ UNCHANGED <<tvars, rvars, svars>>
    /\ UNCHANGED <<run, list, cont, edited, missingEntity, wofIds, items, i, entityId>>
    /\ UNCHANGED kvars

\* Mutant: the titles of the page that carries no cursor are not added.
ContribPageDropsLast ==
    /\ pc = "contribs"
    /\ cont # False
    /\ LET from == cont
           to == Min(from + PageSize, Len(contribLog))
           next == IF from + PageSize < Len(contribLog) THEN from + PageSize ELSE False
       IN /\ edited' = IF next = False THEN edited
                       ELSE edited \cup {contribLog[k] : k \in (from + 1) .. to}
          /\ cont' = next
          /\ pc' = IF next = False THEN "mapread" ELSE "contribs"
    /\ UNCHANGED <<tvars, rvars, svars>>
    /\ UNCHANGED <<run, list, missingEntity, wofIds, items, i, entityId, events>>
    /\ UNCHANGED kvars

\* Mutant: the loop takes the first page and ignores the cursor.
ContribPageFirstOnly ==
    /\ pc = "contribs"
    /\ cont # False
    /\ edited' = edited \cup {contribLog[k] : k \in 1 .. Min(PageSize, Len(contribLog))}
    /\ cont' = False
    /\ pc' = "mapread"
    /\ UNCHANGED <<tvars, rvars, svars>>
    /\ UNCHANGED <<run, list, missingEntity, wofIds, items, i, entityId, events>>
    /\ UNCHANGED kvars

\* One turn of while (cont !== false): fetch the page at the cursor, take
\* the cursor of the answer, add the titles.
ContribPage ==
    /\ pc = "contribs"
    /\ cont # False
    /\ LET from == cont
           to == Min(from + PageSize, Len(contribLog))
           next == IF from + PageSize < Len(contribLog) THEN from + PageSize ELSE False
       IN /\ edited' = edited \cup {contribLog[k] : k \in (from + 1) .. to}
          /\ cont' = next
          /\ pc' = IF next = False THEN "mapread" ELSE "contribs"
    /\ UNCHANGED <<tvars, rvars, svars>>
    /\ UNCHANGED <<run, list, missingEntity, wofIds, items, i, entityId, events>>
    /\ UNCHANGED kvars

\* The usercontribs request goes through cookieFetch alone: a rejected
\* fetch rejects main.
ContribFail ==
    /\ pc = "contribs"
    /\ cont # False
    /\ pc' = "crashed"
    /\ UNCHANGED <<tvars, rvars, svars>>
    /\ UNCHANGED <<run, list, cont, edited, missingEntity, wofIds, items, i, entityId, events>>
    /\ UNCHANGED kvars

\* Mutant: missingEntity is edited itself, not a copy, so the deletes reach
\* edited.
ReadMapAlias ==
    /\ pc = "mapread"
    /\ missingEntity' = edited \ {row[1] : row \in mapTable}
    /\ edited' = edited \ {row[1] : row \in mapTable}
    /\ wofIds' = {row[2] : row \in mapTable}
    /\ pc' = "backfill"
    /\ UNCHANGED <<tvars, rvars, svars>>
    /\ UNCHANGED <<run, list, cont, items, i, entityId, events>>
    /\ UNCHANGED kvars

\* CREATE TABLE IF NOT EXISTS; SELECT wd, wof FROM map; missingEntity is a
\* copy of edited without the entities of the rows; wofIds takes every wof.
ReadMap ==
    /\ pc = "mapread"
    /\ missingEntity' = edited \ {row[1] : row \in mapTable}
    /\ wofIds' = {row[2] : row \in mapTable}
    /\ pc' = "backfill"
    /\ UNCHANGED <<tvars, rvars, svars>>
    /\ UNCHANGED <<run, list, cont, edited, items, i, entityId, events>>
    /\ UNCHANGED kvars

\* for (entity of missingEntity): retryFetch(wbgetclaims entity P6766)
BackfillCall ==
    /\ pc = "backfill"
    /\ \E e \in missingEntity : entityId' = e
    /\ CallStart("retryFetch")
    /\ pc' = "claims"
    /\ UNCHANGED <<rvars, svars>>
    /\ UNCHANGED <<run, list, cont, edited, missingEntity, wofIds, items, i, events>>
    /\ UNCHANGED kvars

\* Mutant: only the first claim of the answer is inserted.
BackfillReturnFirstClaim ==
    /\ pc = "claims"
    /\ tpc = "request"
    /\ \E kind \in RespKinds :
        /\ Returns("retryFetch", kind)
        /\ CallEnd
        /\ LET claims == IF kind = "ok" /\ wdClaims[entityId] # <<>>
                         THEN <<Head(wdClaims[entityId])>> ELSE <<>>
               done == InsertClaims([table |-> mapTable, ids |-> {}, failed |-> FALSE],
                                    entityId, claims)
           IN /\ mapTable' = done.table
              /\ wofIds' = wofIds \cup done.ids
              /\ pc' = IF done.failed THEN "crashed" ELSE "backfill"
        /\ events' = events \cup
              {Ev(run, 0, IF kind = "ok" THEN "backfilled" ELSE "backfillerr",
                  entityId, NoItem)}
    /\ missingEntity' = missingEntity \ {entityId}
    /\ UNCHANGED <<rvars, negative, pendingNeg, negAtStart>>
    /\ UNCHANGED <<run, list, cont, edited, items, i, entityId>>
    /\ UNCHANGED kvars

\* The claim read returns: one INSERT INTO map per claim value of the
\* answer, each awaited; an answer without claims (an error body) inserts
\* nothing.  The entity is done with either way.
BackfillReturn ==
    /\ pc = "claims"
    /\ tpc = "request"
    /\ \E kind \in RespKinds :
        /\ Returns("retryFetch", kind)
        /\ CallEnd
        /\ LET claims == IF kind = "ok" THEN wdClaims[entityId] ELSE <<>>
               done == InsertClaims([table |-> mapTable, ids |-> {}, failed |-> FALSE],
                                    entityId, claims)
           IN /\ mapTable' = done.table
              /\ wofIds' = wofIds \cup done.ids
              /\ pc' = IF done.failed THEN "crashed" ELSE "backfill"
        /\ events' = events \cup
              {Ev(run, 0, IF kind = "ok" THEN "backfilled" ELSE "backfillerr",
                  entityId, NoItem)}
    /\ missingEntity' = missingEntity \ {entityId}
    /\ UNCHANGED <<rvars, negative, pendingNeg, negAtStart>>
    /\ UNCHANGED <<run, list, cont, edited, items, i, entityId>>
    /\ UNCHANGED kvars

\* The queries over the database files, the reduce into the items Map, the
\* removal of linked ids and of ids known to be missing.
BuildItems ==
    /\ pc = "backfill"
    /\ missingEntity = {}
    /\ items' = DeleteMissing(DeleteLinked(Reduce(<<>>, list), wofIds), negative)
    /\ i' = 0
    /\ pc' = "loop"
    /\ UNCHANGED <<tvars, rvars, svars>>
    /\ UNCHANGED <<run, list, cont, edited, missingEntity, wofIds, entityId, events>>
    /\ UNCHANGED kvars

\* Top of the candidate loop: i++, then the search through backoffFetch.
LoopNext ==
    /\ pc = "loop"
    /\ i < Len(items)
    /\ i' = i + 1
    /\ CallStart("backoffFetch")
    /\ pc' = "search"
    /\ entityId' = NoEntity
    /\ events' = events \cup {Ev(run, i + 1, "search", NoEntity, items[i + 1])}
    /\ UNCHANGED <<rvars, svars>>
    /\ UNCHANGED <<run, list, cont, edited, missingEntity, wofIds, items>>
    /\ UNCHANGED kvars

\* The loop is over and main returns.
LoopEnd ==
    /\ pc = "loop"
    /\ i = Len(items)
    /\ pc' = "done"
    /\ events' = events \cup {Ev(run, i, "done", NoEntity, NoItem)}
    /\ UNCHANGED <<tvars, rvars, svars>>
    /\ UNCHANGED <<run, list, cont, edited, missingEntity, wofIds, items, i, entityId>>
    /\ UNCHANGED kvars

\* Mutant: the statement is given the local id instead of the foreign id.
SearchNoneInsertsLocalId ==
    /\ pc = "search"
    /\ tpc = "request"
    /\ \E kind \in RespKinds :
        /\ Returns("backoffFetch", kind)
        /\ kind = "ok" => SearchHits(items[i].other_id) = <<>>
        /\ CallEnd
        /\ events' = events \cup
              {Ev(run, i, IF kind = "ok" THEN "zero" ELSE "nobody", NoEntity, items[i])}
    /\ pendingNeg' = Append(pendingNeg, items[i].id)
    /\ pc' = "loop"
    /\ UNCHANGED <<rvars, mapTable, negative, negAtStart>>
    /\ UNCHANGED <<run, list, cont, edited, missingEntity, wofIds, items, i, entityId>>
    /\ UNCHANGED kvars

\* Mutant: the zero-hit branch continues without the INSERT.
SearchNoneNoInsert ==
    /\ pc = "search"
    /\ tpc = "request"
    /\ \E kind \in RespKinds :
        /\ Returns("backoffFetch", kind)
        /\ kind = "ok" => SearchHits(items[i].other_id) = <<>>
        /\ CallEnd
        /\ events' = events \cup
              {Ev(run, i, IF kind = "ok" THEN "zero" ELSE "nobody", NoEntity, items[i])}
    /\ pc' = "loop"
    /\ UNCHANGED <<rvars, svars>>
    /\ UNCHANGED <<run, list, cont, edited, missingEntity, wofIds, items, i, entityId>>
    /\ UNCHANGED kvars

\* The search returns a body without query.search or with no hit:
\* db.run(INSERT OR IGNORE INTO woeid) is issued and not awaited; continue.
SearchNone ==
    /\ pc = "search"
    /\ tpc = "request"
    /\ \E kind \in RespKinds :
        /\ Returns("backoffFetch", kind)
        /\ kind = "ok" => SearchHits(items[i].other_id) = <<>>
        /\ CallEnd
        /\ events' = events \cup
              {Ev(run, i, IF kind = "ok" THEN "zero" ELSE "nobody", NoEntity, items[i])}
    /\ pendingNeg' = Append(pendingNeg, items[i].other_id)
    /\ pc' = "loop"
    /\ UNCHANGED <<rvars, mapTable, negative, negAtStart>>
    /\ UNCHANGED <<run, list, cont, edited, missingEntity, wofIds, items, i, entityId>>
    /\ UNCHANGED kvars

\* Mutant: the edited.has branch logs and falls through to getToken().
SearchEditedFallsThrough ==
    /\ pc = "search"
    /\ tpc = "request"
    /\ Returns("backoffFetch", "ok")
    /\ SearchHits(items[i].other_id) # <<>>
    /\ LET e == Head(SearchHits(items[i].other_id))
       IN /\ e \in edited
          /\ entityId' = e
          /\ events' = events \cup {Ev(run, i, "skip", e, items[i]),
                                    Ev(run, i, "token", e, items[i])}
    /\ CallStart("retryFetch")
    /\ pc' = "token"
    /\ UNCHANGED <<rvars, svars>>
    /\ UNCHANGED <<run, list, cont, edited, missingEntity, wofIds, items, i>>
    /\ UNCHANGED kvars

\* The search returns a first hit that is in edited: continue.
SearchEdited ==
    /\ pc = "search"
    /\ tpc = "request"
    /\ Returns("backoffFetch", "ok")
    /\ SearchHits(items[i].other_id) # <<>>
    /\ LET e == Head(SearchHits(items[i].other_id))
       IN /\ e \in edited
          /\ entityId' = e
          /\ events' = events \cup {Ev(run, i, "skip", e, items[i])}
    /\ CallEnd
    /\ pc' = "loop"
    /\ UNCHANGED <<rvars, svars>>
    /\ UNCHANGED <<run, list, cont, edited, missingEntity, wofIds, items, i>>
    /\ UNCHANGED kvars

\* Mutant: the first hit goes to getToken() without the edited.has test.
SearchHitNoEditedCheck ==
    /\ pc = "search"
    /\ tpc = "request"
    /\ Returns("backoffFetch", "ok")
    /\ SearchHits(items[i].other_id) # <<>>
    /\ LET e == Head(SearchHits(items[i].other_id))
       IN /\ entityId' = e
          /\ events' = events \cup {Ev(run, i, "token", e, items[i])}
    /\ CallStart("retryFetch")
    /\ pc' = "token"
    /\ UNCHANGED <<rvars, svars>>
    /\ UNCHANGED <<run, list, cont, edited, missingEntity, wofIds, items, i>>
    /\ UNCHANGED kvars

\* The search returns a first hit that is not in edited: getToken().
SearchHit ==
    /\ pc = "search"
    /\ tpc = "request"
    /\ Returns("backoffFetch", "ok")
    /\ SearchHits(items[i].other_id) # <<>>
    /\ LET e == Head(SearchHits(items[i].other_id))
       IN /\ e \notin edited
          /\ entityId' = e
          /\ events' = events \cup {Ev(run, i, "token", e, items[i])}
    /\ CallStart("retryFetch")
    /\ pc' = "token"
    /\ UNCHANGED <<rvars, svars>>
    /\ UNCHANGED <<run, list, cont, edited, missingEntity, wofIds, items, i>>
    /\ UNCHANGED kvars

\* Mutant: the wbcreateclaim request is sent without await and the loop
\* goes on while it is in flight.
TokenReturnNoAwait ==
    /\ pc = "token"
    /\ tpc = "request"
    /\ Returns("retryFetch", "ok")
    /\ CallStart("retryFetch")
    /\ pc' = "loop"
    /\ events' = events \cup {Ev(run, i, "write", entityId, items[i])}
    /\ issued' = issued + 1
    /\ token' = issued + 1
    /\ form' = EditForm(entityId, items[i].id, issued + 1)
    /\ spent' = Append(spent, issued + 1)
    /\ UNCHANGED <<wdClaims, contribLog, indexed, p31, svars, variant>>
    /\ UNCHANGED <<run, list, cont, edited, missingEntity, wofIds, items, i, entityId>>

\* getToken returns data.query.tokens.csrftoken, a token the remote hands out
\* for this request, and the wbcreateclaim request that carries it is sent
\* through retryFetch.
TokenReturn ==
    /\ pc = "token"
    /\ tpc = "request"
    /\ Returns("retryFetch", "ok")
    /\ CallStart("retryFetch")
    /\ pc' = "write"
    /\ events' = events \cup {Ev(run, i, "write", entityId, items[i])}
    /\ issued' = issued + 1
    /\ token' = issued + 1
    /\ form' = EditForm(entityId, items[i].id, issued + 1)
    /\ spent' = Append(spent, issued + 1)
    /\ UNCHANGED <<wdClaims, contribLog, indexed, p31, svars, variant>>
    /\ UNCHANGED <<run, list, cont, edited, missingEntity, wofIds, items, i, entityId>>

\* getToken gets an error body: data.query is undefined and reading
\* .tokens throws, which rejects main.
TokenError ==
    /\ pc = "token"
    /\ tpc = "request"
    /\ \E kind \in RespKinds : Returns("retryFetch", kind) /\ kind # "ok"
    /\ CallEnd
    /\ pc' = "crashed"
    /\ UNCHANGED <<rvars, svars>>
    /\ UNCHANGED <<run, list, cont, edited, missingEntity, wofIds, items, i, entityId, events>>
    /\ UNCHANGED kvars

\* The write is accepted: the remote adds the claim and lists the edit in
\* the contribution history.  The driver only logs the end of the edit.
WriteOk ==
    /\ pc = "write"
    /\ tpc = "request"
    /\ Returns("retryFetch", "ok")
    /\ Decodable(form.value)
    /\ Len(wdClaims[form.entity]) < MaxClaims
    /\ wdClaims' = [wdClaims EXCEPT ![form.entity] = Append(@, Decode(form.value))]
    /\ contribLog' = Append(contribLog, form.entity)
    /\ CallEnd
    /\ events' = events \cup {Ev(run, i, "wrote", entityId, items[i])}
    /\ pc' = "loop"
    /\ UNCHANGED <<indexed, p31, issued, spent, svars>>
    /\ UNCHANGED <<run, list, cont, edited, missingEntity, wofIds, items, i, entityId>>
    /\ UNCHANGED kvars

\* Mutant: main throws when the write comes back with no-permission.
WriteErrorAborts ==
    /\ pc = "write"
    /\ tpc = "request"
    /\ \E kind \in RespKinds :
        /\ Returns("retryFetch", kind)
        /\ kind # "ok"
        /\ events' = events \cup
              {Ev(run, i, IF kind = "noperm" THEN "denied" ELSE "refused",
                  entityId, items[i])}
        /\ pc' = IF kind = "noperm" THEN "crashed" ELSE "loop"
    /\ CallEnd
    /\ UNCHANGED <<rvars, svars>>
    /\ UNCHANGED <<run, list, cont, edited, missingEntity, wofIds, items, i, entityId>>
    /\ UNCHANGED kvars

\* The write is answered with an error body (no-permission: "denied", or
\* another error: "refused"): retryFetch returns it, main ignores the value
\* and goes on.
WriteError ==
    /\ pc = "write"
    /\ tpc = "request"
    /\ \E kind \in RespKinds :
        /\ Returns("retryFetch", kind)
        /\ kind # "ok"
        /\ events' = events \cup
              {Ev(run, i, IF kind = "noperm" THEN "denied" ELSE "refused",
                  entityId, items[i])}
    /\ CallEnd
    /\ pc' = "loop"
    /\ UNCHANGED <<rvars, svars>>
    /\ UNCHANGED <<run, list, cont, edited, missingEntity, wofIds, items, i, entityId>>
    /\ UNCHANGED kvars

\* Retries inside a call of the driver.
CallBackoff ==
    /\ pc \in CallPcs
    /\ fails + throttles < MaxRetry
    /\ Backoff(MaxRetry)
    /\ UNCHANGED <<rvars, svars, pvars, kvars>>

CallThrottle ==
    /\ pc \in CallPcs
    /\ fails + throttles < MaxRetry
    /\ Throttle(MaxRetry)
    /\ UNCHANGED <<rvars, svars, pvars, kvars>>

\* Mutant: the retry of a write fetches a new token and puts it in the form.
CallRetryNewToken ==
    /\ pc \in CallPcs
    /\ Retry
    /\ IF pc = "write"
       THEN /\ issued' = issued + 1
            /\ token' = issued + 1
            /\ form' = [form EXCEPT !.token = issued + 1]
            /\ spent' = Append(spent, issued + 1)
            /\ UNCHANGED <<wdClaims, contribLog, indexed, p31, variant>>
       ELSE UNCHANGED <<rvars, kvars>>
    /\ UNCHANGED <<svars, pvars>>

\* The timer of a wait fires: retryFetch(input, options, ...) is called with
\* the input and options it was given.
CallRetry ==
    /\ pc \in CallPcs
    /\ Retry
    /\ UNCHANGED <<rvars, svars, pvars, kvars>>

\* sqlite runs the oldest queued INSERT OR IGNORE INTO woeid.
NegativeInsert ==
    /\ pendingNeg # <<>>
    /\ negative' = negative \cup {Head(pendingNeg)}
    /\ pendingNeg' = Tail(pendingNeg)
    /\ UNCHANGED <<tvars, rvars, pvars, kvars, mapTable, negAtStart>>

\* The search index catches up with the claims.
IndexRefresh ==
    /\ indexed # WithClaim
    /\ indexed' = WithClaim
    /\ UNCHANGED <<tvars, svars, pvars, kvars, wdClaims, contribLog, p31, issued, spent>>

\* Loop counter of the candidate being processed, 0 between two candidates.
InFlight == IF pc \in {"search", "token", "write"} THEN i ELSE 0

\* The process is terminated from outside: queued statements are lost.
Terminate ==
    /\ pc \in RunningPcs
    /\ pc' = "killed"
    /\ pendingNeg' = <<>>
    /\ CallEnd
    /\ events' = events \cup {Ev(run, i, "killed", NoEntity, Rec(InFlight, 0))}
    /\ UNCHANGED <<rvars, mapTable, negative, negAtStart>>
    /\ UNCHANGED <<run, list, cont, edited, missingEntity, wofIds, items, i, entityId>>
    /\ UNCHANGED kvars

\* The driver is started again on the same dataset.  A process that ended
\* by returning from main has run its queued statements before it exits.
Restart ==
    /\ pc \in StoppedPcs
    /\ run < MaxRuns
    /\ pc = "done" => pendingNeg = <<>>
    /\ run' = run + 1
    /\ pc' = "start"
    /\ pendingNeg' = <<>>
    /\ ResetMemory
    /\ CallEnd
    /\ negAtStart' = negative
    /\ events' = {ev \in events : ev.kind \in KeptKinds}
    /\ token' = 0
    /\ form' = NoForm
    /\ UNCHANGED variant
    /\ UNCHANGED <<rvars, mapTable, negative, list>>

Next ==
    \/ Login
    \/ ContribPage
    \/ ContribFail
    \/ ReadMap
    \/ BackfillCall
    \/ BackfillReturn
    \/ BuildItems
    \/ LoopNext
    \/ LoopEnd
    \/ SearchNone
    \/ SearchEdited
    \/ SearchHit
    \/ TokenReturn
    \/ TokenError
    \/ WriteOk
    \/ WriteError
    \/ CallBackoff
    \/ CallThrottle
    \/ CallRetry
    \/ NegativeInsert
    \/ IndexRefresh
    \/ Terminate
    \/ Restart

Spec == Init /\ [][Next]_vars

-----------------------------------------------------------------------------
(* The startup of the store-backed driver alone, over a wider choice of      *)
(* remote states: any of the claim lists below on either entity, histories   *)
(* of up to two titles, and no dataset row, so that main returns right after *)
(* the backfill.                                                              *)

\* P6766 claims an entity may carry: none, one, two different values, or the
\* same value twice (the remote takes a second statement with a value the
\* entity already has).
StartupClaims == {<<>>, <<1>>, <<1, 2>>, <<2, 2>>}

StartupHistories == {<<>>, <<"Q1">>, <<"Q2", "Q1">>}

InitStartup ==
    /\ tfn = "none"
    /\ tpc = "idle"
    /\ iteration = 0
    /\ fails = 0
    /\ throttles = 0
    /\ waitMs = 0
    /\ waitCause = "none"
    /\ lastResp = "none"
    /\ wdClaims \in [Entities -> StartupClaims]
    /\ contribLog \in StartupHistories
    /\ indexed = WithClaim
    /\ p31 = [e \in Entities |-> <<>>]
    /\ issued = 0
    /\ spent = <<>>
    /\ variant = "store"
    /\ token = 0
    /\ form = NoForm
    /\ mapTable = {}
    /\ negative = {}
    /\ pendingNeg = <<>>
    /\ negAtStart = {}
    /\ run = 1
    /\ pc = "start"
    /\ list = <<>>
    /\ cont = Null
    /\ edited = {}
    /\ missingEntity = {}
    /\ wofIds = {}
    /\ items = <<>>
    /\ i = 0
    /\ entityId = NoEntity
    /\ events = {}

NextStartup ==
    \/ Login
    \/ ContribPage
    \/ ContribFail
    \/ ReadMap
    \/ BackfillCall
    \/ BackfillReturn
    \/ BuildItems
    \/ LoopEnd
    \/ CallBackoff
    \/ CallThrottle
    \/ CallRetry
    \/ Terminate
    \/ Restart

SpecStartup == InitStartup /\ [][NextStartup]_vars

-----------------------------------------------------------------------------

(* The direct variants: index.js and part_000.                               *)
(* The foreign id of a record is the entity id itself (other_source wd:id);  *)
(* main reads the entity's P6766 claims with a bare fetch and writes through *)
(* the retryFetch that has no try/catch.  csrftoken is fetched once, before  *)
(* the loop.  index.js does not test the login result and keeps no edited    *)
(* set; part_000 does both.                                                  *)

DirectVariants == {"index.js", "part_000"}

\* Rows of the wd:id query, in scan order.
DirectDatasets ==
    { <<Rec(1, "Q1"), Rec(2, "Q2")>>,
      <<Rec(1, "Q1"), Rec(2, "Q1")>>,
      <<Rec(1, "Q2"), Rec(2, "Q1"), Rec(3, "Q2")>> }

DirectNoItem == Rec(0, NoEntity)

InitDirect ==
    /\ tfn = "none"
    /\ tpc = "idle"
    /\ iteration = 0
    /\ fails = 0
    /\ throttles = 0
    /\ waitMs = 0
    /\ waitCause = "none"
    /\ lastResp = "none"
    /\ \E q2 \in {<<>>, <<2>>} : wdClaims = [e \in Entities |-> IF e = "Q2" THEN q2 ELSE <<>>]
    /\ contribLog \in {<<>>, <<"Q2">>}
    /\ indexed = WithClaim
    /\ p31 = [e \in Entities |-> <<>>]
    /\ issued = 0
    /\ spent = <<>>
    /\ mapTable = {}
    /\ negative = {}
    /\ pendingNeg = <<>>
    /\ negAtStart = {}
    /\ run = 1
    /\ pc = "start"
    /\ list \in DirectDatasets
    /\ cont = Null
    /\ edited = {}
    /\ missingEntity = {}
    /\ wofIds = {}
    /\ items = <<>>
    /\ i = 0
    /\ entityId = NoEntity
    /\ events = {}
    /\ variant \in DirectVariants
    /\ token = 0
    /\ form = NoForm

\* action=login.  part_000 throws 'Login Failure' unless the result is
\* Success; index.js logs the result and goes on to the csrf token.
DirectLogin ==
    /\ pc = "start"
    /\ \E result \in {"Success", "Failed"} :
        /\ pc' = IF variant = "index.js" THEN "csrf"
                 ELSE IF result = "Success" THEN "contribs" ELSE "aborted"
        /\ events' = IF result = "Success" THEN events
                      ELSE events \cup {Ev(run, 0, "loginfail", NoEntity, DirectNoItem)}
    /\ UNCHANGED <<tvars, rvars, svars, kvars>>
    /\ UNCHANGED <<run, list, cont, edited, missingEntity, wofIds, items, i, entityId>>

\* part_000: list takes the rows whose other_id is not in edited.
DirectList ==
    /\ pc = "mapread"
    /\ list' = SelectSeq(list, LAMBDA r : r.other_id \notin edited)
    /\ pc' = "csrf"
    /\ UNCHANGED <<tvars, rvars, svars, kvars>>
    /\ UNCHANGED <<run, cont, edited, missingEntity, wofIds, items, i, entityId, events>>

\* meta=tokens through cookieFetch, once: csrftoken is set for the whole loop.
DirectCsrf ==
    /\ pc = "csrf"
    /\ issued' = issued + 1
    /\ token' = issued + 1
    /\ i' = 0
    /\ pc' = "loop"
    /\ UNCHANGED <<tvars, svars, variant, form, wdClaims, contribLog, indexed, p31, spent>>
    /\ UNCHANGED <<run, list, cont, edited, missingEntity, wofIds, items, entityId, events>>

\* The token request fails, or its body has no query member: main rejects.
DirectCsrfError ==
    /\ pc = "csrf"
    /\ pc' = "crashed"
    /\ UNCHANGED <<tvars, rvars, svars, kvars>>
    /\ UNCHANGED <<run, list, cont, edited, missingEntity, wofIds, items, i, entityId, events>>

\* for ({id, other_id} of list): the wbgetclaims request goes out by fetch.
DirectLoopNext ==
    /\ pc = "loop"
    /\ i < Len(list)
    /\ i' = i + 1
    /\ entityId' = list[i + 1].other_id
    /\ pc' = "read"
    /\ UNCHANGED <<tvars, rvars, svars, kvars>>
    /\ UNCHANGED <<run, list, cont, edited, missingEntity, wofIds, items, events>>

DirectLoopEnd ==
    /\ pc = "loop"
    /\ i = Len(list)
    /\ pc' = "done"
    /\ events' = events \cup {Ev(run, i, "done", NoEntity, DirectNoItem)}
    /\ UNCHANGED <<tvars, rvars, svars, kvars>>
    /\ UNCHANGED <<run, list, cont, edited, missingEntity, wofIds, items, i, entityId>>

\* The claim read is a bare fetch: a rejected fetch or a body that is not
\* JSON rejects main.
DirectReadFail ==
    /\ pc = "read"
    /\ pc' = "crashed"
    /\ UNCHANGED <<tvars, rvars, svars, kvars>>
    /\ UNCHANGED <<run, list, cont, edited, missingEntity, wofIds, items, i, entityId, events>>

\* The claim read returns a body without claims (an error body).  index.js
\* reads claims[property] of undefined and throws; part_000 logs the body
\* and goes on.
DirectReadError ==
    /\ pc = "read"
    /\ events' = events \cup {Ev(run, i, "noclaims", entityId, list[i])}
    /\ pc' = IF variant = "index.js" THEN "crashed" ELSE "loop"
    /\ UNCHANGED <<tvars, rvars, svars, kvars>>
    /\ UNCHANGED <<run, list, cont, edited, missingEntity, wofIds, items, i, entityId>>

\* claims[property] is there: log 'Skipping'.
DirectSkip ==
    /\ pc = "read"
    /\ wdClaims[entityId] # <<>>
    /\ events' = events \cup {Ev(run, i, "skip", entityId, list[i])}
    /\ pc' = "loop"
    /\ UNCHANGED <<tvars, rvars, svars, kvars>>
    /\ UNCHANGED <<run, list, cont, edited, missingEntity, wofIds, items, i, entityId>>

\* Mutant: the edit branch is taken whatever the claim read returned.
DirectEditUnchecked ==
    /\ pc = "read"
    /\ events' = events \cup {Ev(run, i, "write", entityId, list[i])}
    /\ spent' = Append(spent, token)
    /\ form' = EditForm(entityId, list[i].id, token)
    /\ CallStart("retryFetch0")
    /\ pc' = "write"
    /\ UNCHANGED <<svars, variant, token, wdClaims, contribLog, indexed, p31, issued>>
    /\ UNCHANGED <<run, list, cont, edited, missingEntity, wofIds, items, i, entityId>>

\* !claims[property]: the wbcreateclaim request, carrying csrftoken, is sent
\* through retryFetch.
DirectEdit ==
    /\ pc = "read"
    /\ wdClaims[entityId] = <<>>
    /\ events' = events \cup {Ev(run, i, "write", entityId, list[i])}
    /\ spent' = Append(spent, token)
    /\ form' = EditForm(entityId, list[i].id, token)
    /\ CallStart("retryFetch0")
    /\ pc' = "write"
    /\ UNCHANGED <<svars, variant, token, wdClaims, contribLog, indexed, p31, issued>>
    /\ UNCHANGED <<run, list, cont, edited, missingEntity, wofIds, items, i, entityId>>

\* The write is accepted; main logs the end of the edit.
DirectWriteOk ==
    /\ pc = "write"
    /\ tpc = "request"
    /\ Returns("retryFetch0", "ok")
    /\ Decodable(form.value)
    /\ Len(wdClaims[form.entity]) < MaxClaims
    /\ wdClaims' = [wdClaims EXCEPT ![form.entity] = Append(@, Decode(form.value))]
    /\ contribLog' = Append(contribLog, form.entity)
    /\ CallEnd
    /\ events' = events \cup {Ev(run, i, "wrote", entityId, list[i])}
    /\ pc' = "loop"
    /\ UNCHANGED <<indexed, p31, issued, spent, svars, kvars>>
    /\ UNCHANGED <<run, list, cont, edited, missingEntity, wofIds, items, i, entityId>>

\* retryFetch returns a body that is not a success: main goes on.
DirectWriteError ==
    /\ pc = "write"
    /\ tpc = "request"
    /\ \E kind \in RespKinds : Returns("retryFetch0", kind) /\ kind # "ok"
    /\ CallEnd
    /\ events' = events \cup {Ev(run, i, "refused", entityId, list[i])}
    /\ pc' = "loop"
    /\ UNCHANGED <<rvars, svars, kvars>>
    /\ UNCHANGED <<run, list, cont, edited, missingEntity, wofIds, items, i, entityId>>

\* retryFetch rejects: main rejects.
DirectWriteRaise ==
    /\ pc = "write"
    /\ tpc = "request"
    /\ \E kind \in RespKinds : Raises("retryFetch0", kind)
    /\ CallEnd
    /\ pc' = "crashed"
    /\ UNCHANGED <<rvars, svars, kvars>>
    /\ UNCHANGED <<run, list, cont, edited, missingEntity, wofIds, items, i, entityId, events>>

NextDirect ==
    \/ DirectLogin
    \/ ContribPage
    \/ ContribFail
    \/ DirectList
    \/ DirectCsrf
    \/ DirectCsrfError
    \/ DirectLoopNext
    \/ DirectLoopEnd
    \/ DirectReadFail
    \/ DirectReadError
    \/ DirectSkip
    \/ DirectEdit
    \/ DirectWriteOk
    \/ DirectWriteError
    \/ DirectWriteRaise
    \/ CallThrottle
    \/ CallRetry

SpecDirect == InitDirect /\ [][NextDirect]_vars

-----------------------------------------------------------------------------
(* The type-validating variant (part_001, first program).                    *)
(* Records carry a place type; the entity found by the search (P1566) has    *)
(* its P31 claims read and compared with the classes accepted for the place  *)
(* type before the token is fetched.  There is no local store.               *)

TRec(id, other, placetype) == [id |-> id, other_id |-> other, placetype |-> placetype]

\* placetypes after the SPARQL loop: place type -> Set of the class and its
\* subclasses.
Placetypes ==
    [t \in {"locality", "region"} |->
        IF t = "locality" THEN {"A", "A1"} ELSE {"B"}]

\* Rows of the gn:id query, in scan order.  "custom" is a place type the
\* placetypes Map has no key for.
TypedDatasets ==
    { <<TRec(1, 10, "locality"), TRec(2, 20, "locality")>>,
      <<TRec(1, 10, "region"), TRec(2, 20, "locality")>>,
      <<TRec(1, 20, "custom"), TRec(2, 10, "locality")>> }

\* P31 values of the entities on the remote system
TypedClaims ==
    { [e \in Entities |-> IF e = "Q1" THEN <<"A", "X">> ELSE <<"X">>],
      [e \in Entities |-> IF e = "Q1" THEN <<"X", "A1">> ELSE <<>>],
      [e \in Entities |-> IF e = "Q1" THEN <<>> ELSE <<"A">>],
      [e \in Entities |-> IF e = "Q1" THEN <<"B">> ELSE <<"X", "Y">>] }

Undefined == "undefined"

\* instanceOf.find(id => set.has(id)): the first element in the set, or
\* undefined.
Find(instanceOf, set) ==
    IF \E k \in DOMAIN instanceOf : instanceOf[k] \in set
    THEN instanceOf[CHOOSE k \in DOMAIN instanceOf :
                       /\ instanceOf[k] \in set
                       /\ \A j \in DOMAIN instanceOf : instanceOf[j] \in set => k <= j]
    ELSE Undefined

\* Mutant: valid only when every value is in the set.
IsValidInstanceEvery(instanceOf, set) ==
    \A k \in DOMAIN instanceOf : instanceOf[k] \in set

\* isValidInstance = instanceOf.find(...); used as !isValidInstance
IsValidInstance(instanceOf, set) == Find(instanceOf, set) # Undefined

InitTyped ==
    /\ tfn = "none"
    /\ tpc = "idle"
    /\ iteration = 0
    /\ fails = 0
    /\ throttles = 0
    /\ waitMs = 0
    /\ waitCause = "none"
    /\ lastResp = "none"
    /\ wdClaims = [e \in Entities |-> <<>>]
    /\ contribLog \in {<<>>, <<"Q2">>}
    /\ indexed = {}
    /\ p31 \in TypedClaims
    /\ issued = 0
    /\ spent = <<>>
    /\ mapTable = {}
    /\ negative = {}
    /\ pendingNeg = <<>>
    /\ negAtStart = {}
    /\ run = 1
    /\ pc = "start"
    /\ list \in TypedDatasets
    /\ cont = Null
    /\ edited = {}
    /\ missingEntity = {}
    /\ wofIds = {}
    /\ items = <<>>
    /\ i = 0
    /\ entityId = NoEntity
    /\ events = {}
    /\ variant = "typed"
    /\ token = 0
    /\ form = NoForm

\* The queries over the database files: the loop runs over list itself.
TypedList ==
    /\ pc = "mapread"
    /\ items' = list
    /\ i' = 0
    /\ pc' = "loop"
    /\ UNCHANGED <<tvars, rvars, svars, kvars>>
    /\ UNCHANGED <<run, list, cont, edited, missingEntity, wofIds, entityId, events>>

\* The search returns a body without query.search or with no hit: continue.
TypedSearchNone ==
    /\ pc = "search"
    /\ tpc = "request"
    /\ \E kind \in RespKinds :
        /\ Returns("backoffFetch", kind)
        /\ kind = "ok" => SearchHits(items[i].other_id) = <<>>
        /\ events' = events \cup
              {Ev(run, i, IF kind = "ok" THEN "zero" ELSE "nobody", NoEntity, items[i])}
    /\ CallEnd
    /\ pc' = "loop"
    /\ UNCHANGED <<rvars, svars, kvars>>
    /\ UNCHANGED <<run, list, cont, edited, missingEntity, wofIds, items, i, entityId>>

\* The first hit is not in edited: wbgetclaims P31 through backoffFetch.
TypedSearchHit ==
    /\ pc = "search"
    /\ tpc = "request"
    /\ Returns("backoffFetch", "ok")
    /\ SearchHits(items[i].other_id) # <<>>
    /\ LET e == Head(SearchHits(items[i].other_id))
       IN /\ e \notin edited
          /\ entityId' = e
    /\ CallStart("backoffFetch")
    /\ pc' = "instance"
    /\ UNCHANGED <<rvars, svars, kvars>>
    /\ UNCHANGED <<run, list, cont, edited, missingEntity, wofIds, items, i, events>>

\* The P31 read returns a body without claims: 'Skipping ... Error'.
TypedInstanceError ==
    /\ pc = "instance"
    /\ tpc = "request"
    /\ \E kind \in RespKinds : Returns("backoffFetch", kind) /\ kind # "ok"
    /\ CallEnd
    /\ events' = events \cup {Ev(run, i, "insterr", entityId, items[i])}
    /\ pc' = "loop"
    /\ UNCHANGED <<rvars, svars, kvars>>
    /\ UNCHANGED <<run, list, cont, edited, missingEntity, wofIds, items, i, entityId>>

\* The entity has P31 values and find() gives undefined: the candidate is
\* skipped, the values are logged.
TypedInstanceReject ==
    /\ pc = "instance"
    /\ tpc = "request"
    /\ Returns("backoffFetch", "ok")
    /\ p31[entityId] # <<>>
    /\ items[i].placetype \in DOMAIN Placetypes
    /\ ~IsValidInstance(p31[entityId], Placetypes[items[i].placetype])
    /\ CallEnd
    /\ events' = events \cup {Ev(run, i, "reject", entityId, items[i])}
    /\ pc' = "loop"
    /\ UNCHANGED <<rvars, svars, kvars>>
    /\ UNCHANGED <<run, list, cont, edited, missingEntity, wofIds, items, i, entityId>>

\* The entity has P31 values and placetypes.get(placetype) is undefined:
\* .has throws inside find and main rejects.
TypedInstanceCrash ==
    /\ pc = "instance"
    /\ tpc = "request"
    /\ Returns("backoffFetch", "ok")
    /\ p31[entityId] # <<>>
    /\ items[i].placetype \notin DOMAIN Placetypes
    /\ CallEnd
    /\ pc' = "crashed"
    /\ UNCHANGED <<rvars, svars, kvars>>
    /\ UNCHANGED <<run, list, cont, edited, missingEntity, wofIds, items, i, entityId, events>>

\* No P31 value, or find() gives a value: 'Editing ... start', getToken().
TypedInstanceAccept ==
    /\ pc = "instance"
    /\ tpc = "request"
    /\ Returns("backoffFetch", "ok")
    /\ \/ p31[entityId] = <<>>
       \/ /\ items[i].placetype \in DOMAIN Placetypes
          /\ IsValidInstance(p31[entityId], Placetypes[items[i].placetype])
    /\ events' = events \cup {Ev(run, i, "token", entityId, items[i])}
    /\ CallStart("retryFetch")
    /\ pc' = "token"
    /\ UNCHANGED <<rvars, svars, kvars>>
    /\ UNCHANGED <<run, list, cont, edited, missingEntity, wofIds, items, i, entityId>>

NextTyped ==
    \/ Login
    \/ ContribPage
    \/ ContribFail
    \/ TypedList
    \/ LoopNext
    \/ LoopEnd
    \/ TypedSearchNone
    \/ SearchEdited
    \/ TypedSearchHit
    \/ TypedInstanceError
    \/ TypedInstanceReject
    \/ TypedInstanceCrash
    \/ TypedInstanceAccept
    \/ TokenReturn
    \/ TokenError
    \/ WriteOk
    \/ WriteError
    \/ CallBackoff
    \/ CallThrottle
    \/ CallRetry
    \/ IndexRefresh

SpecTyped == InitTyped /\ [][NextTyped]_vars

-----------------------------------------------------------------------------
(* Properties *)

Of(kind) == {ev \in events : ev.kind = kind}

\* C1: within one run createClaim is invoked at most once with a given
\* entity as target (one invocation per candidate iteration).
C1_AtMostOneWritePerEntity ==
    \A a \in Of("write"), b \in Of("write") :
        (a.run = b.run /\ a.ent = b.ent) => a.i = b.i

C3_NoWriteInsideDedupUniverse ==
    pc = "write" =>
        entityId \notin (Range(contribLog) \cup {row[1] : row \in mapTable})

\* C4: once a createClaim has returned success for (entity, local_id), the
\* row (entity, local_id) is in the map table.
C4_LinkRecordAfterWrite ==
    \A s \in Of("wrote") : s.run = run => <<s.ent, s.id>> \in mapTable

C6_NegativeMeansNoHolder ==
    \A f \in negative \cup Range(pendingNeg) : Holders(f) = <<>>

\* C7: a candidate whose search returned zero hits has its foreign id put
\* into the NegativeCache (the INSERT is issued) and gets neither a token
\* fetch nor a createClaim.
C7_ZeroHitsCachedAndNotWritten ==
    \A z \in Of("zero") :
        (z.run = run /\ pc # "killed") =>
            /\ z.other \in negative \cup Range(pendingNeg)
            /\ \A ev \in Of("token") \cup Of("write") : ~(ev.run = z.run /\ ev.i = z.i)

\* C7 witness: a search of the current run returned zero hits and the loop
\* has gone on to a later candidate.
C7_Witness == \E z \in Of("zero") : z.run = run /\ i > z.i

\* C8: a run issues no search for a candidate whose foreign id was in the
\* NegativeCache table when the run started.
C8_NoSearchForCachedNegative ==
    \A a \in Of("search") : a.run = run => a.other \notin negAtStart

\* C8 witness: a run that started with a cached foreign id of the dataset
\* has gone through its whole candidate loop.
C8_Witness ==
    /\ pc = "done"
    /\ \E k \in DOMAIN list : list[k].other_id \in negAtStart

\* C9: no step removes a row of the map table or of the NegativeCache
\* table, and no element leaves edited while a run lasts.
C9_AppendOnly ==
    [][/\ mapTable \subseteq mapTable'
       /\ negative \subseteq negative'
       /\ (run' = run => edited \subseteq edited')]_vars

\* C9 witness: both tables and edited hold entries.
C9_Witness == mapTable # {} /\ negative # {} /\ edited # {}

\* C10: after the k-th consecutive transient failure of a call the wait is
\* 2^(k-1) seconds.
C10_BackoffDoubles ==
    (tpc = "waiting" /\ waitCause = "backoff") =>
        (waitMs % 1000 = 0 /\ waitMs \div 1000 = 2 ^ (fails - 1))

C12_No4xxRetry ==
    (tfn = "retryFetch" /\ lastResp = "s4xx") => tpc = "returned"

\* C13: a connection failure or a status >= 500 never reaches the caller of
\* retryFetch, returned or raised: each causes one backoff wait, and the
\* retry after the wait runs with iteration + 1.
C13_TransientNeverSurfaced ==
    [][/\ (tfn \in {"retryFetch", "retryFetch0"} /\ tpc = "request"
              /\ lastResp' \in {"netfail", "s5xx"})
              => (tpc' = "waiting" /\ waitCause' = "backoff")
       /\ (tfn \in {"retryFetch", "retryFetch0"} /\ tpc = "waiting"
              /\ waitCause = "backoff" /\ tpc' = "request")
              => iteration' = iteration + 1]_vars

\* C14: a write answered with no-permission comes back from retryFetch at
\* that attempt, with no wait and no retry, and main does not abort: it is
\* back at the top of the candidate loop with nothing written.
C14_DenialDoesNotAbort ==
    [][(Of("denied")' \ Of("denied") # {})
          => /\ pc = "write" /\ tpc = "request"
             /\ pc' = "loop" /\ tpc' = "idle"
             /\ i' = i /\ items' = items
             /\ wdClaims' = wdClaims]_vars

\* C14 witness: a write of the current run was denied and the candidate
\* after it has been searched.
C14_Witness ==
    \E d \in Of("denied"), a \in Of("search") :
        d.run = run /\ a.run = run /\ a.i = d.i + 1

\* C15: after a login whose result is not Success the run is aborted: no
\* contribution-history request, search, claim read, token fetch or
\* createClaim follows.
C15_LoginFailureAborts ==
    \A f \in Of("loginfail") : f.run = run => pc = "aborted"

\* C16: no error other than a failed login ends the run: main never rejects
\* on an error met while the history is loaded or a candidate is processed.
C16_NoErrorEndsRun == pc # "crashed"

\* C17: every wbcreateclaim request carries a token obtained by a token
\* request made after the previous write: no token is carried by two writes.
C17_FreshTokenPerWrite ==
    \A a \in DOMAIN spent, b \in DOMAIN spent : a # b => spent[a] # spent[b]

\* C18: in the direct variants, when the claim read finds a P6766 claim on
\* the candidate's entity, no wbcreateclaim is sent for the candidate, and
\* unless the read failed or came back without a claims member the skip
\* line is logged.
C18_ExistingClaimIsSkipped ==
    [][(pc = "read" /\ wdClaims[entityId] # <<>>)
          => /\ pc' # "write"
             /\ spent' = spent
             /\ Of("write")' = Of("write")
             /\ (pc' = "loop" /\ Of("noclaims")' = Of("noclaims"))
                   => Ev(run, i, "skip", entityId, list[i]) \in events']_vars

\* C18 witness: a run has written one entity and skipped a candidate whose
\* entity carried the claim.
C18_Witness ==
    /\ pc = "done"
    /\ \E k \in Of("skip") : wdClaims[k.ent] # <<>>
    /\ Of("wrote") # {}

\* the record with this id that was scanned last
LastOf(id) ==
    list[CHOOSE k \in DOMAIN list :
            /\ list[k].id = id
            /\ \A j \in DOMAIN list : list[j].id = id => j <= k]

\* C19: the candidate list holds one candidate per distinct id, the record
\* scanned last for that id; every id of the scan is there unless its id is
\* already linked or the foreign id of its last record is a cached negative.
C19_OneCandidatePerIdLastWins ==
    pc \in {"loop", "search", "token", "write", "done"} =>
        /\ \A a \in DOMAIN items, b \in DOMAIN items :
              a # b => items[a].id # items[b].id
        /\ \A k \in DOMAIN items : items[k] = LastOf(items[k].id)
        /\ \A k \in DOMAIN list :
              (list[k].id \notin wofIds
                 /\ LastOf(list[k].id).other_id \notin negAtStart)
                 => \E j \in DOMAIN items : items[j].id = list[k].id

\* C19 witness: the scan holds two records with one id and different foreign
\* ids, and the candidate list holds the second of them for that id.
C19_Witness ==
    /\ pc = "loop"
    /\ \E a \in DOMAIN list, b \in DOMAIN list :
          /\ a < b
          /\ list[a].id = list[b].id
          /\ list[a].other_id # list[b].other_id
          /\ \E j \in DOMAIN items : items[j] = list[b]

\* the classes accepted for a place type (none when the Map has no key)
Accepted(placetype) ==
    IF placetype \in DOMAIN Placetypes THEN Placetypes[placetype] ELSE {}

\* the entity read has P31 values and none of them is accepted
NoneAccepted ==
    /\ p31[entityId] # <<>>
    /\ \A k \in DOMAIN p31[entityId] :
          p31[entityId][k] \notin Accepted(items[i].placetype)

\* C20 (as stated): a candidate whose entity has at least one P31 value
\* outside the acceptance set of its place type gets no token fetch.
C20_AnyOutsideValueRejects ==
    [][(/\ pc = "instance"
        /\ \E k \in DOMAIN p31[entityId] :
              p31[entityId][k] \notin Accepted(items[i].placetype))
          => pc' # "token"]_vars

\* C20 (amended): a candidate gets no token fetch and no write when its
\* entity has P31 values and none of them is in the acceptance set of the
\* place type; it is not rejected when the entity has no P31 value or at
\* least one value in the set, whatever the other values are.
C20_RejectedIffNoneAccepted ==
    [][pc = "instance" =>
          /\ NoneAccepted => (pc' # "token" /\ issued' = issued /\ spent' = spent)
          /\ ~NoneAccepted => Of("reject")' = Of("reject")]_vars

\* C20 witness: in one run a candidate was rejected and a write went to an
\* entity that has an accepted P31 value next to one outside the set.
C20_Witness ==
    /\ Of("reject") # {}
    /\ \E w \in Of("wrote") :
          /\ \E k \in DOMAIN p31[w.ent] : p31[w.ent][k] \in Accepted(items[w.i].placetype)
          /\ \E k \in DOMAIN p31[w.ent] : p31[w.ent][k] \notin Accepted(items[w.i].placetype)

\* C21: while the contribution history is being loaded, edited holds exactly
\* the titles of the pages fetched so far (those before the cursor); the load
\* is over only once a page came without a cursor, and then edited is the
\* union of the titles of all pages, the empty set when the first page is
\* empty.
C21_EditedIsUnionOfPages ==
    /\ (pc = "contribs" /\ cont # False) =>
           /\ cont <= Len(contribLog)
           /\ edited = {contribLog[k] : k \in 1 .. cont}
    /\ pc = "mapread" =>
           /\ cont = False
           /\ edited = Range(contribLog)

\* C21 witness: a history longer than one page has been loaded in full.
C21_Witness ==
    /\ pc = "mapread"
    /\ Len(contribLog) > PageSize
    /\ cont = False
    /\ edited = Range(contribLog)

\* C22: retryFetch has no retry limit, and an answer that is neither a
\* connection failure, a 5xx status nor a throttle error ends the call: its
\* decoded body is returned at that attempt.
C22_FinalAnswerReturned ==
    [][(tfn = "retryFetch" /\ tpc = "request"
           /\ lastResp' \in {"s4xx", "noperm", "error", "ok"})
          => tpc' = "returned"]_vars

\* C23: whichever wrapper of the store-backed program carries a request,
\* the attempt is treated alike: a connection failure or a 5xx status leads
\* to a backoff wait, a throttle error to a wait of 60 seconds and a retry,
\* a permission denial to a return without retry.
C23_UniformPolicy ==
    [][(tfn \in {"backoffFetch", "retryFetch"} /\ tpc = "request") =>
          /\ lastResp' \in {"netfail", "s5xx"}
                => (tpc' = "waiting" /\ waitCause' = "backoff")
          /\ lastResp' = "throttle"
                => (tpc' = "waiting" /\ waitCause' = "throttle"
                      /\ waitMs' = ThrottleSeconds * 1000)
          /\ lastResp' = "noperm" => tpc' = "returned"]_vars

\* C24: a createClaim is issued only for an entity on which a read of its
\* P6766 claims, made in the same candidate iteration, shows no claim: at
\* the time of the write the entity carries no P6766 claim.
C24_WriteOnlyWithoutClaim ==
    pc = "write" => wdClaims[entityId] = <<>>

\* C25 (as stated): when the search of a candidate has been issued, the
\* foreign id of every earlier zero-hit candidate of the run is in the
\* NegativeCache table, so that no later termination loses it.
C25_NegativeDurableBeforeNextSearch ==
    \A z \in Of("zero") : (z.run = run /\ z.i < i) => z.other \in negative

\* C25 (amended): the INSERT for a zero-hit candidate is issued before the
\* next search and not awaited.  As long as the process is not terminated
\* the foreign id is in the table or in a statement still queued; and an
\* entry that is in the table stays there whatever happens later.
C25_NegativeIssuedNotAwaited ==
    [][/\ negative \subseteq negative'
       /\ pc' # "killed" =>
              \A z \in Of("zero")' :
                  z.run = run' => z.other \in negative' \cup Range(pendingNeg')]_vars

\* C25 witness: the search of the next candidate is under way while the
\* INSERT of an earlier zero-hit candidate is still queued.
C25_Witness ==
    /\ pc = "search"
    /\ \E z \in Of("zero") :
          /\ z.run = run
          /\ z.i < i
          /\ z.other \notin negative
          /\ z.other \in Range(pendingNeg)

\* C26: the loop moves to a candidate only while no remote request is
\* outstanding, and every write sent for an earlier candidate of the run has
\* come back (accepted, refused or denied) by then: the requests of the
\* loop, their retries included, follow one another.
C26_OneRequestAtATime ==
    [][/\ (run' = run /\ i' # i) => (pc = "loop" /\ tpc = "idle")
       /\ \A w \in Of("write")' :
              (w.run = run' /\ w.i < i') =>
                  \E c \in (Of("wrote") \cup Of("refused") \cup Of("denied"))' :
                      c.run = w.run /\ c.i = w.i]_vars

\* C26 witness: the search of a candidate is under way and the write of the
\* candidate before it has come back.
C26_Witness ==
    /\ pc = "search"
    /\ tpc = "request"
    /\ \E w \in Of("write"), c \in Of("wrote") \cup Of("refused") \cup Of("denied") :
          /\ w.run = run
          /\ w.i = i - 1
          /\ c.run = run
          /\ c.i = w.i

\* C27: when the search of a candidate resolves to an entity of edited, the
\* skip is logged and the loop is back at its top with no request under
\* way; no token is fetched and no createClaim is sent for that candidate.
C27_AlreadyEditedIsSkipped ==
    [][/\ (pc = "search" /\ entityId' \in edited) =>
              /\ Ev(run, i, "skip", entityId', items[i]) \in events'
              /\ pc' = "loop"
              /\ tpc' = "idle"
              /\ issued' = issued
              /\ spent' = spent
       /\ \A s \in Of("skip")' :
              \A ev \in (Of("token") \cup Of("write"))' :
                  ~(ev.run = s.run /\ ev.i = s.i)]_vars

\* C27 witness: the candidate just processed was skipped as already
\* edited.
C27_Witness ==
    /\ pc = "loop"
    /\ \E s \in Of("skip") : s.run = run /\ s.i = i /\ s.ent \in edited

\* C28: a claim read whose body has no claims map raises nothing: the body
\* is logged, no write is sent for the candidate and main is back at the top
\* of the candidate loop.
C28_NoClaimsMapGoesOn ==
    [][(Of("noclaims")' \ Of("noclaims") # {})
          => (pc = "read" /\ pc' = "loop" /\ tpc' = "idle")]_vars

\* C29: no search, token fetch or createClaim of a run is for a candidate
\* whose local id is the wof of a row of the map table, be the row read at
\* startup or inserted by the backfill of this run.
C29_LinkedIdIsNoCandidate ==
    \A a \in Of("search") \cup Of("token") \cup Of("write") :
        a.run = run => a.id \notin {row[2] : row \in mapTable}

\* C29 witness: the loop of a run is over, the dataset holds a row whose
\* id a backfill of this run has linked, and another row was searched.
C29_Witness ==
    /\ pc = "done"
    /\ \E b \in Of("backfilled"), k \in DOMAIN list :
          /\ b.run = run
          /\ <<b.ent, list[k].id>> \in mapTable
    /\ \E a \in Of("search") : a.run = run

\* C30: the startup reads the P6766 claims of an entity only if the entity
\* is in edited and has no row in the map table; and when the candidate
\* loop starts, every entity of edited either had a row and was not read,
\* or was read and has one row per claim value of the answer, or was read
\* and the answer carried no claims.
C30_BackfillBeforeLoop ==
    [][/\ (pc = "backfill" /\ pc' = "claims") =>
              /\ entityId' \in edited
              /\ entityId' \notin {row[1] : row \in mapTable}
       /\ (pc = "backfill" /\ pc' = "loop") =>
              \A e \in edited :
                  LET reads == {b \in Of("backfilled") \cup Of("backfillerr") :
                                   b.run = run /\ b.ent = e}
                  IN IF reads = {}
                     THEN \E row \in mapTable : row[1] = e
                     ELSE \A b \in reads :
                              b.kind = "backfilled" =>
                                  \A k \in DOMAIN wdClaims[e] :
                                      <<e, wdClaims[e][k]>> \in mapTable']_vars

\* C30 witness: the candidate loop has started in a run whose startup read
\* an entity that carries a claim, inserted its row, and spared another
\* entity that had a row.
C30_Witness ==
    /\ pc = "loop"
    /\ \E b \in Of("backfilled") :
          /\ b.run = run
          /\ wdClaims[b.ent] # <<>>
          /\ \A k \in DOMAIN wdClaims[b.ent] : <<b.ent, wdClaims[b.ent][k]>> \in mapTable
          /\ \E e \in edited \ {b.ent} :
                /\ \E row \in mapTable : row[1] = e
                /\ \A c \in Of("backfilled") \cup Of("backfillerr") :
                      ~(c.run = run /\ c.ent = e)

\* The candidate of the current iteration: an entry of items in the search
\* variants, a row of list in the direct variants.
Current == IF variant \in DirectVariants THEN list[i] ELSE items[i]

\* C31: the wbcreateclaim request under way carries the entity resolved for
\* the current candidate (a holder of its foreign id; in the direct variants
\* the foreign id itself), the property P6766 and, between quotes, the local
\* id of that same candidate; and what an accepted write stored on an entity
\* is the local id of the candidate it was sent for.
C31_WriteCarriesOwnPair ==
    /\ pc = "write" =>
           /\ form.entity = entityId
           /\ IF variant \in DirectVariants
              THEN entityId = Current.other_id
              ELSE entityId \in Range(Holders(Current.other_id))
           /\ form.property = "P6766"
           /\ form.value.quoted
           /\ form.value.text = Current.id
    /\ \A w \in Of("wrote") :
           w.run = run =>
               \E k \in DOMAIN wdClaims[w.ent] : wdClaims[w.ent][k] = w.id

\* C31 witness: the write of the second candidate is under way after the
\* write of a first candidate with another local id was accepted.
C31_Witness ==
    /\ pc = "write"
    /\ i > 1
    /\ form.value = Quote(items[i].id)
    /\ \E w \in Of("wrote") : w.run = run /\ w.i < i /\ w.id # items[i].id

\* C32: a retry of retryFetch, after a backoff wait or after a throttle
\* wait, sends the request of the attempt before it: the wrapper, the
\* entity and, for a write, the form with its entity, value and token are
\* the same, and no token is issued or spent by the retry.
C32_RetryResendsSameRequest ==
    [][(tfn = "retryFetch" /\ tpc = "waiting" /\ tpc' = "request") =>
          /\ tfn' = tfn
          /\ pc' = pc
          /\ entityId' = entityId
          /\ form' = form
          /\ token' = token
          /\ issued' = issued
          /\ spent' = spent]_vars

\* C32 witness: the retry of a write is under way, carrying the form built
\* for the current candidate with the token fetched before the first
\* attempt.
C32_Witness ==
    /\ pc = "write"
    /\ tpc = "request"
    /\ fails + throttles > 0
    /\ form = EditForm(entityId, items[i].id, token)
    /\ token = issued

\* C33: an answer whose body is not JSON never reaches the caller of
\* backoffFetch or retryFetch: the attempt ends in a wait of 2^iteration
\* seconds, and the retry after that wait runs with iteration + 1.
C33_UndecodableIsTransient ==
    [][/\ (tfn \in {"backoffFetch", "retryFetch"} /\ tpc = "request"
              /\ lastResp' = "badjson")
              => /\ tpc' = "waiting"
                 /\ waitCause' = "backoff"
                 /\ waitMs' % 1000 = 0
                 /\ waitMs' \div 1000 = 2 ^ iteration
       /\ (tfn \in {"backoffFetch", "retryFetch"} /\ tpc = "waiting"
              /\ lastResp = "badjson" /\ tpc' = "request")
              => iteration' = iteration + 1]_vars

\* C34: the backfill of an entity never meets a pair (wd, wof) that is in
\* the map table: every claim read of the startup that returns is followed
\* by the next entity, never by a rejected INSERT.
C34_BackfillNeverBreaksKey ==
    [][(pc = "claims" /\ pc' \notin {"claims", "killed"}) => pc' = "backfill"]_vars

=============================================================================
